---------------------------- MODULE Spec2Model ----------------------------
(***************************************************************************)
(* se_solver: the WorkerPool of worker_pool.hpp / worker_pool.cpp driven   *)
(* by main() of main.cpp.                                                  *)
(*                                                                         *)
(* Threads: the main thread (producer and owner of the pool), the printer  *)
(* thread (consumer, the lambda of main) and the Worker threads.  Every    *)
(* thread is modelled by its position in the code; one step of the model   *)
(* is one access to shared state (a mutex acquisition, an atomic load or   *)
(* store, a notify, a condition-variable block) or the remainder of a      *)
(* critical section that touches nothing but the data its mutex guards.    *)
(***************************************************************************)
EXTENDS Integers, Sequences, FiniteSets, TLC

(* Bounds of the model *)
MaxJobs == 2
NumWorkers == 2
MaxHardware == 128

(***************************************************************************)
(* Thread identities (owners of the two std::mutex)                        *)
(***************************************************************************)
Workers == 1..NumWorkers
MainThread == 0
PrinterThread == NumWorkers + 1
NoThread == -1

(***************************************************************************)
(* unsigned int (32 bits), kept as two 16-bit halves                       *)
(***************************************************************************)
UIntHalf == 65536

ToUInt(n) == [hi |-> (n \div UIntHalf) % UIntHalf, lo |-> n % UIntHalf]

\* a - b in unsigned arithmetic: the result wraps around modulo 2^32
USub(a, b) ==
    LET borrow == IF a.lo < b.lo THEN 1 ELSE 0 IN
    [hi |-> (a.hi - b.hi - borrow) % UIntHalf, lo |-> (a.lo - b.lo) % UIntHalf]

ULess(a, b) == a.hi < b.hi \/ (a.hi = b.hi /\ a.lo < b.lo)

\* The values std::thread::hardware_concurrency() returns: 0 when the number
\* is not computable, else the number of hardware threads
HardwareConcurrency == {ToUInt(h) : h \in 0..MaxHardware}

(***************************************************************************)
(* The job function: calculate_square_roots on three tokens of std::cin    *)
(***************************************************************************)
\* std::stoi accepts a token iff it starts with a decimal number
StoiValid(s) == s # "x"

Stoi(s) ==
    CASE s = "0" -> 0
      [] s = "1" -> 1
      [] s = "2" -> 2
      [] s = "-3" -> -3
      [] s = "-4" -> -4
      [] OTHER -> 0

\* The text appended after "(a b c) => "; roots are named by the branch
\* that formats them and the integers the branch computes them from.
Answer(a, b, c) ==
    LET d == b * b - 4 * a * c IN
    IF a = 0
    THEN IF b = 0 THEN <<"(x in R)">>
         ELSE IF c = 0 THEN <<"(0)">>
         ELSE <<"linear", b, c>>
    ELSE (IF d < 0 THEN <<"no roots">>
          ELSE IF d = 0 THEN <<"one root", -b, 2 * a>>
          ELSE <<"two roots", b, d, a, c>>)
         \o <<IF a > 0 THEN "Xmin" ELSE "Xmax", -b, 2 * a>>

calculate_square_roots(a_str, b_str, c_str) ==
    [prefix |-> <<a_str, b_str, c_str>>,
     answer |-> IF StoiValid(a_str) /\ StoiValid(b_str) /\ StoiValid(c_str)
                THEN Answer(Stoi(a_str), Stoi(b_str), Stoi(c_str))
                ELSE <<"invalid argument">>]

\* std::apply(func, args) of Worker::operator(); the only JobFunc main passes
Apply(func, args) ==
    IF func = "calculate_square_roots"
    THEN calculate_square_roots(args[1], args[2], args[3])
    ELSE [prefix |-> args, answer |-> <<>>]

\* The groups of three tokens std::cin delivers, in order: a quadratic with
\* two roots, a group std::stoi rejects, a linear equation, then the same again
InputGroups == <<<<"1", "-3", "2">>, <<"0", "x", "-4">>, <<"0", "2", "-4">>>>

Group(k) == InputGroups[((k - 1) % Len(InputGroups)) + 1]

\* std::cin ends after any number of complete groups up to MaxJobs; the pool
\* never inspects the tokens, so one stream of different groups stands for all
Inputs == {[k \in 1..n |-> Group(k)] : n \in 0..MaxJobs}

(***************************************************************************)
(* State                                                                   *)
(***************************************************************************)
VARIABLES
    input,          \* the groups std::cin delivers, in order
    mpc,            \* main thread: position in main / set_job / stop / ~WorkerPool
    nread,          \* main: number of groups read from std::cin so far
    di,             \* main: index of the worker the destructor loops are at
    results,        \* WorkerPool::results: queue of futures (slot ids)
    jobs,           \* WorkerPool::jobs: queue of JobRequest
    slot,           \* shared state of each promise/future pair: <<>> or <<value>>
    m_results,      \* owner of WorkerPool::m_results
    m_jobs,         \* owner of WorkerPool::m_jobs
    cv_results,     \* threads blocked in cv_results.wait
    cv_jobs,        \* threads blocked in cv_jobs.wait
    stop_flag,      \* WorkerPool::stop_flag
    wstop,          \* Worker::stop_flag of each worker
    ppc,            \* printer thread: position in the lambda / get_answer
    result,         \* get_answer's local future: <<>> or <<slot id>>
    output,         \* what the printer has written to std::cout, in order
    wpc,            \* each worker: position in Worker::operator()
    wjob,           \* each worker's moved-out func/args/promise: <<>> or <<job>>
    wval,           \* each worker's value of std::apply(func, args): <<>> or <<v>>
    invoked,        \* per job: number of invocations of its function
    completed,      \* the promises set_value was called on, in order
    pendingAtStop,  \* number of unfulfilled slots when stop() stored its flag
    nthreads,       \* WorkerPool::nthreads: std::thread::hardware_concurrency()
    num_threads,    \* the constructor's argument: <<>> before main computed it
    cpc,            \* a second caller of get_answer: its position
    cresult,        \* the second caller's local future: <<>> or <<slot id>>
    coutput         \* what get_answer has returned to the second caller

vars == <<input, mpc, nread, di, results, jobs, slot, m_results, m_jobs,
          cv_results, cv_jobs, stop_flag, wstop, ppc, result, output,
          wpc, wjob, wval, invoked, completed, pendingAtStop,
          nthreads, num_threads, cpc, cresult, coutput>>

mainVars == <<mpc, nread, di>>
printerVars == <<ppc, result, output>>
workerVars == <<wpc, wjob, wval, invoked>>
histVars == <<completed, pendingAtStop>>
hostVars == <<nthreads, num_threads>>
callerVars == <<cpc, cresult, coutput>>
otherVars == <<hostVars, callerVars>>

SlotIds == 1..MaxJobs

\* Number of promise.set_value calls made on slot k
Fulfils(k) == Cardinality({i \in DOMAIN completed : completed[i] = k})

\* State after WorkerPool's constructor returned and the printer thread was
\* started: every thread is at the top of its loop.  The host is one on which
\* main's nthreads - 2 is NumWorkers; main starts no second get_answer caller.
Init ==
    /\ nthreads = ToUInt(NumWorkers + 2)
    /\ num_threads = <<ToUInt(NumWorkers)>>
    /\ cpc = "unstarted"
    /\ cresult = <<>>
    /\ coutput = <<>>
    /\ input \in Inputs
    /\ mpc = "read"
    /\ nread = 0
    /\ di = 1
    /\ results = <<>>
    /\ jobs = <<>>
    /\ slot = [k \in SlotIds |-> <<>>]
    /\ m_results = NoThread
    /\ m_jobs = NoThread
    /\ cv_results = {}
    /\ cv_jobs = {}
    /\ stop_flag = FALSE
    /\ wstop = [w \in Workers |-> FALSE]
    /\ ppc = "ga_lock"
    /\ result = <<>>
    /\ output = <<>>
    /\ wpc = [w \in Workers |-> "w_lock"]
    /\ wjob = [w \in Workers |-> <<>>]
    /\ wval = [w \in Workers |-> <<>>]
    /\ invoked = [k \in SlotIds |-> 0]
    /\ completed = <<>>
    /\ pendingAtStop = 0

(***************************************************************************)
(* main(): the reading loop                                                *)
(***************************************************************************)
\* std::cin delivers one more complete group: main calls set_job, which
\* creates the promise/future pair of the group (its slot id is its number)
ReadGroup ==
    /\ mpc = "read"
    /\ nread < Len(input)
    /\ nread' = nread + 1
    /\ mpc' = "sj_lock_results"
    /\ UNCHANGED <<otherVars, input, di, results, jobs, slot, m_results, m_jobs, cv_results,
                   cv_jobs, stop_flag, wstop, printerVars, workerVars, histVars>>

\* std::cin is exhausted: main leaves the loop and calls worker_pool.stop()
ReadEof ==
    /\ mpc = "read"
    /\ nread = Len(input)
    /\ mpc' = "stop_store"
    /\ UNCHANGED <<otherVars, input, nread, di, results, jobs, slot, m_results, m_jobs,
                   cv_results, cv_jobs, stop_flag, wstop, printerVars, workerVars,
                   histVars>>

(***************************************************************************)
(* std::condition_variable                                                 *)
(***************************************************************************)
\* notify_one: the waiter sets that can remain (no waiter: nothing happens)
NotifyOne(waiters) ==
    IF waiters = {} THEN {waiters} ELSE {waiters \ {t} : t \in waiters}

\* notify_all: no waiter remains blocked
NotifyAll(waiters) == {}

(***************************************************************************)
(* WorkerPool::set_job, called by main with calculate_square_roots         *)
(***************************************************************************)
\* std::lock_guard l(m_results)
SetJobLockResults ==
    /\ mpc = "sj_lock_results"
    /\ m_results = NoThread
    /\ m_results' = MainThread
    /\ mpc' = "sj_push_results"
    /\ UNCHANGED <<otherVars, input, nread, di, results, jobs, slot, m_jobs, cv_results,
                   cv_jobs, stop_flag, wstop, printerVars, workerVars, histVars>>

\* Faulty variant: results.push is missing from set_job
SetJobPushResultsOmitted ==
    /\ mpc = "sj_push_results"
    /\ results' = results
    /\ m_results' = NoThread
    /\ mpc' = "sj_notify_results"
    /\ UNCHANGED <<otherVars, input, nread, di, jobs, slot, m_jobs, cv_results, cv_jobs,
                   stop_flag, wstop, printerVars, workerVars, histVars>>

\* Faulty variant: one lock_guard scope spans both pushes, m_results stays locked
SetJobPushResultsKeepsLock ==
    /\ mpc = "sj_push_results"
    /\ results' = Append(results, nread)
    /\ m_results' = MainThread
    /\ mpc' = "sj_notify_results"
    /\ UNCHANGED <<otherVars, input, nread, di, jobs, slot, m_jobs, cv_results, cv_jobs,
                   stop_flag, wstop, printerVars, workerVars, histVars>>

\* Faulty variant: the future is put at the head of the queue
SetJobPushResultsFront ==
    /\ mpc = "sj_push_results"
    /\ results' = <<nread>> \o results
    /\ m_results' = NoThread
    /\ mpc' = "sj_notify_results"
    /\ UNCHANGED <<otherVars, input, nread, di, jobs, slot, m_jobs, cv_results, cv_jobs,
                   stop_flag, wstop, printerVars, workerVars, histVars>>

\* results.push(std::move(future)); end of the lock_guard's scope
SetJobPushResults ==
    /\ mpc = "sj_push_results"
    /\ results' = Append(results, nread)
    /\ m_results' = NoThread
    /\ mpc' = "sj_notify_results"
    /\ UNCHANGED <<otherVars, input, nread, di, jobs, slot, m_jobs, cv_results, cv_jobs,
                   stop_flag, wstop, printerVars, workerVars, histVars>>

\* cv_results.notify_one()
SetJobNotifyResults ==
    /\ mpc = "sj_notify_results"
    /\ cv_results' \in NotifyOne(cv_results)
    /\ mpc' = "sj_lock_jobs"
    /\ UNCHANGED <<otherVars, input, nread, di, results, jobs, slot, m_results, m_jobs,
                   cv_jobs, stop_flag, wstop, printerVars, workerVars, histVars>>

\* std::lock_guard l(m_jobs)
SetJobLockJobs ==
    /\ mpc = "sj_lock_jobs"
    /\ m_jobs = NoThread
    /\ m_jobs' = MainThread
    /\ mpc' = "sj_push_jobs"
    /\ UNCHANGED <<otherVars, input, nread, di, results, jobs, slot, m_results, cv_results,
                   cv_jobs, stop_flag, wstop, printerVars, workerVars, histVars>>

\* jobs.push({job, args, promise}); end of the lock_guard's scope
SetJobPushJobs ==
    /\ mpc = "sj_push_jobs"
    /\ jobs' = Append(jobs, [func |-> "calculate_square_roots",
                             args |-> input[nread],
                             promise |-> nread])
    /\ m_jobs' = NoThread
    /\ mpc' = "sj_notify_jobs"
    /\ UNCHANGED <<otherVars, input, nread, di, results, slot, m_results, cv_results,
                   cv_jobs, stop_flag, wstop, printerVars, workerVars, histVars>>

\* Faulty variant: set_job returns without cv_jobs.notify_one()
SetJobNotifyJobsOmitted ==
    /\ mpc = "sj_notify_jobs"
    /\ mpc' = "read"
    /\ UNCHANGED <<otherVars, input, nread, di, results, jobs, slot, m_results, m_jobs,
                   cv_results, cv_jobs, stop_flag, wstop, printerVars, workerVars,
                   histVars>>

\* cv_jobs.notify_one(); set_job returns to the reading loop
SetJobNotifyJobs ==
    /\ mpc = "sj_notify_jobs"
    /\ cv_jobs' \in NotifyOne(cv_jobs)
    /\ mpc' = "read"
    /\ UNCHANGED <<otherVars, input, nread, di, results, jobs, slot, m_results, m_jobs,
                   cv_results, stop_flag, wstop, printerVars, workerVars, histVars>>

(***************************************************************************)
(* WorkerPool::stop, then printer.join()                                   *)
(***************************************************************************)
\* stop_flag.store(true), m_results not held
StopStore ==
    /\ mpc = "stop_store"
    /\ stop_flag' = TRUE
    /\ pendingAtStop' = nread - Len(completed)
    /\ mpc' = "stop_notify"
    /\ UNCHANGED <<otherVars, input, nread, di, results, jobs, slot, m_results, m_jobs,
                   cv_results, cv_jobs, wstop, printerVars, workerVars, completed>>

\* cv_results.notify_all(); stop() returns
StopNotify ==
    /\ mpc = "stop_notify"
    /\ cv_results' = NotifyAll(cv_results)
    /\ mpc' = "join_printer"
    /\ UNCHANGED <<otherVars, input, nread, di, results, jobs, slot, m_results, m_jobs,
                   cv_jobs, stop_flag, wstop, printerVars, workerVars, histVars>>

\* printer.join() returns once the printer's lambda has returned
JoinPrinter ==
    /\ mpc = "join_printer"
    /\ ppc = "exited"
    /\ mpc' = "dtor_stop"
    /\ di' = 1
    /\ UNCHANGED <<otherVars, input, nread, results, jobs, slot, m_results, m_jobs,
                   cv_results, cv_jobs, stop_flag, wstop, printerVars, workerVars,
                   histVars>>

(***************************************************************************)
(* return 0: ~WorkerPool, then the members' destructors (~Worker joins)    *)
(***************************************************************************)
\* for (auto& w : workers) { w->stop(); }  -- Worker::stop: stop_flag.store(true)
DtorStop ==
    /\ mpc = "dtor_stop"
    /\ wstop' = [wstop EXCEPT ![di] = TRUE]
    /\ IF di < NumWorkers
       THEN di' = di + 1 /\ mpc' = mpc
       ELSE di' = 1 /\ mpc' = "dtor_notify"
    /\ UNCHANGED <<otherVars, input, nread, results, jobs, slot, m_results, m_jobs,
                   cv_results, cv_jobs, stop_flag, printerVars, workerVars, histVars>>

\* cv_jobs.notify_all(), m_jobs not held
DtorNotify ==
    /\ mpc = "dtor_notify"
    /\ cv_jobs' = NotifyAll(cv_jobs)
    /\ mpc' = "dtor_join"
    /\ UNCHANGED <<otherVars, input, nread, di, results, jobs, slot, m_results, m_jobs,
                   cv_results, stop_flag, wstop, printerVars, workerVars, histVars>>

\* Faulty variant: ~Worker does not wait for operator() to return (a detached thread)
DtorJoinNoWait ==
    /\ mpc = "dtor_join"
    /\ IF di < NumWorkers
       THEN di' = di + 1 /\ mpc' = mpc
       ELSE di' = di /\ mpc' = "done"
    /\ UNCHANGED <<otherVars, input, nread, results, jobs, slot, m_results, m_jobs,
                   cv_results, cv_jobs, stop_flag, wstop, printerVars, workerVars,
                   histVars>>

\* ~Worker of workers[di]: thread.join() returns once operator() has returned
DtorJoin ==
    /\ mpc = "dtor_join"
    /\ wpc[di] = "exited"
    /\ IF di < NumWorkers
       THEN di' = di + 1 /\ mpc' = mpc
       ELSE di' = di /\ mpc' = "done"
    /\ UNCHANGED <<otherVars, input, nread, results, jobs, slot, m_results, m_jobs,
                   cv_results, cv_jobs, stop_flag, wstop, printerVars, workerVars,
                   histVars>>

(***************************************************************************)
(* The printer thread: for (;;) { get_answer(); if (!result) break; print } *)
(***************************************************************************)
\* std::unique_lock l(m_results)
GetAnswerLock ==
    /\ ppc = "ga_lock"
    /\ m_results = NoThread
    /\ m_results' = PrinterThread
    /\ ppc' = "ga_pred"
    /\ UNCHANGED <<otherVars, input, mainVars, results, jobs, slot, m_jobs, cv_results,
                   cv_jobs, stop_flag, wstop, result, output, workerVars, histVars>>

\* The predicate of cv_results.wait: !results.empty() || stop_flag.load()
GetAnswerPred ==
    /\ ppc = "ga_pred"
    /\ ppc' = IF results # <<>> \/ stop_flag THEN "ga_test" ELSE "ga_block"
    /\ UNCHANGED <<otherVars, input, mainVars, results, jobs, slot, m_results, m_jobs,
                   cv_results, cv_jobs, stop_flag, wstop, result, output,
                   workerVars, histVars>>

\* The predicate was false: wait(l) releases m_results and blocks, atomically
GetAnswerBlock ==
    /\ ppc = "ga_block"
    /\ m_results' = NoThread
    /\ cv_results' = cv_results \cup {PrinterThread}
    /\ ppc' = "ga_wait"
    /\ UNCHANGED <<otherVars, input, mainVars, results, jobs, slot, m_jobs, cv_jobs,
                   stop_flag, wstop, result, output, workerVars, histVars>>

\* Unblocked: wait(l) reacquires m_results and the predicate is evaluated again
GetAnswerWake ==
    /\ ppc = "ga_wait"
    /\ PrinterThread \notin cv_results
    /\ m_results = NoThread
    /\ m_results' = PrinterThread
    /\ ppc' = "ga_pred"
    /\ UNCHANGED <<otherVars, input, mainVars, results, jobs, slot, m_jobs, cv_results,
                   cv_jobs, stop_flag, wstop, result, output, workerVars, histVars>>

\* Faulty variant: the future is moved out of results.front() but results.pop()
\* is missing
GetAnswerTestNoPop ==
    /\ ppc = "ga_test"
    /\ IF stop_flag /\ results = <<>>
       THEN /\ ppc' = "exited"
            /\ UNCHANGED <<results, result>>
       ELSE /\ result' = <<Head(results)>>
            /\ results' = results
            /\ ppc' = "ga_get"
    /\ m_results' = NoThread
    /\ UNCHANGED <<otherVars, input, mainVars, jobs, slot, m_jobs, cv_results, cv_jobs,
                   stop_flag, wstop, output, workerVars, histVars>>

\* Faulty variant: if (stop_flag.load() || results.empty()) return {};
GetAnswerTestOr ==
    /\ ppc = "ga_test"
    /\ IF stop_flag \/ results = <<>>
       THEN /\ ppc' = "exited"
            /\ UNCHANGED <<results, result>>
       ELSE /\ result' = <<Head(results)>>
            /\ results' = Tail(results)
            /\ ppc' = "ga_get"
    /\ m_results' = NoThread
    /\ UNCHANGED <<otherVars, input, mainVars, jobs, slot, m_jobs, cv_results, cv_jobs,
                   stop_flag, wstop, output, workerVars, histVars>>

\* Faulty variant: result.get() is called inside the scope of l, m_results still held
GetAnswerTestKeepsLock ==
    /\ ppc = "ga_test"
    /\ IF stop_flag /\ results = <<>>
       THEN /\ ppc' = "exited"
            /\ m_results' = NoThread
            /\ UNCHANGED <<results, result>>
       ELSE /\ result' = <<Head(results)>>
            /\ results' = Tail(results)
            /\ m_results' = PrinterThread
            /\ ppc' = "ga_get"
    /\ UNCHANGED <<otherVars, input, mainVars, jobs, slot, m_jobs, cv_results, cv_jobs,
                   stop_flag, wstop, output, workerVars, histVars>>

\* Faulty variant: if (stop_flag.load()) return {};
GetAnswerTestStopOnly ==
    /\ ppc = "ga_test"
    /\ IF stop_flag
       THEN /\ ppc' = "exited"
            /\ UNCHANGED <<results, result>>
       ELSE /\ result' = <<Head(results)>>
            /\ results' = Tail(results)
            /\ ppc' = "ga_get"
    /\ m_results' = NoThread
    /\ UNCHANGED <<otherVars, input, mainVars, jobs, slot, m_jobs, cv_results, cv_jobs,
                   stop_flag, wstop, output, workerVars, histVars>>

\* if (stop_flag.load() && results.empty()) return {};  -- the printer breaks
\* result = std::move(results.front()); results.pop(); end of l's scope
GetAnswerTest ==
    /\ ppc = "ga_test"
    /\ IF stop_flag /\ results = <<>>
       THEN /\ ppc' = "exited"
            /\ UNCHANGED <<results, result>>
       ELSE /\ result' = <<Head(results)>>
            /\ results' = Tail(results)
            /\ ppc' = "ga_get"
    /\ m_results' = NoThread
    /\ UNCHANGED <<otherVars, input, mainVars, jobs, slot, m_jobs, cv_results, cv_jobs,
                   stop_flag, wstop, output, workerVars, histVars>>

\* Faulty variant: the wait for the shared state is given up once stop_flag is set
GetAnswerGetOrStop ==
    /\ ppc = "ga_get"
    /\ slot[result[1]] # <<>> \/ stop_flag
    /\ IF slot[result[1]] # <<>>
       THEN /\ output' = Append(output, [future |-> result[1],
                                         value |-> slot[result[1]][1]])
            /\ ppc' = "ga_lock"
       ELSE /\ output' = output
            /\ ppc' = "exited"
    /\ result' = <<>>
    /\ UNCHANGED <<otherVars, input, mainVars, results, jobs, slot, m_results, m_jobs,
                   cv_results, cv_jobs, stop_flag, wstop, workerVars, histVars>>

\* return {result.get()}: blocks until the shared state is ready; the printer
\* writes the value and calls get_answer again
GetAnswerGet ==
    /\ ppc = "ga_get"
    /\ slot[result[1]] # <<>>
    /\ output' = Append(output, [future |-> result[1], value |-> slot[result[1]][1]])
    /\ result' = <<>>
    /\ ppc' = "ga_lock"
    /\ UNCHANGED <<otherVars, input, mainVars, results, jobs, slot, m_results, m_jobs,
                   cv_results, cv_jobs, stop_flag, wstop, workerVars, histVars>>

\* A wait on cv_results may also unblock spuriously
SpuriousWakeResults ==
    /\ PrinterThread \in cv_results
    /\ cv_results' = cv_results \ {PrinterThread}
    /\ UNCHANGED <<otherVars, input, mainVars, results, jobs, slot, m_results, m_jobs,
                   cv_jobs, stop_flag, wstop, printerVars, workerVars, histVars>>

(***************************************************************************)
(* Worker::operator()                                                      *)
(***************************************************************************)
\* std::unique_lock l(m)
WorkerLock(w) ==
    /\ wpc[w] = "w_lock"
    /\ m_jobs = NoThread
    /\ m_jobs' = w
    /\ wpc' = [wpc EXCEPT ![w] = "w_pred"]
    /\ UNCHANGED <<otherVars, input, mainVars, results, jobs, slot, m_results, cv_results,
                   cv_jobs, stop_flag, wstop, printerVars, wjob, wval, invoked,
                   histVars>>

\* The predicate of cv.wait: stop_flag.load() || !jobs.empty()
WorkerPred(w) ==
    /\ wpc[w] = "w_pred"
    /\ wpc' = [wpc EXCEPT ![w] =
                  IF wstop[w] \/ jobs # <<>> THEN "w_test" ELSE "w_block"]
    /\ UNCHANGED <<otherVars, input, mainVars, results, jobs, slot, m_results, m_jobs,
                   cv_results, cv_jobs, stop_flag, wstop, printerVars, wjob, wval,
                   invoked, histVars>>

\* The predicate was false: wait(l) releases m_jobs and blocks, atomically
WorkerBlock(w) ==
    /\ wpc[w] = "w_block"
    /\ m_jobs' = NoThread
    /\ cv_jobs' = cv_jobs \cup {w}
    /\ wpc' = [wpc EXCEPT ![w] = "w_wait"]
    /\ UNCHANGED <<otherVars, input, mainVars, results, jobs, slot, m_results, cv_results,
                   stop_flag, wstop, printerVars, wjob, wval, invoked, histVars>>

\* Unblocked: wait(l) reacquires m_jobs and the predicate is evaluated again
WorkerWake(w) ==
    /\ wpc[w] = "w_wait"
    /\ w \notin cv_jobs
    /\ m_jobs = NoThread
    /\ m_jobs' = w
    /\ wpc' = [wpc EXCEPT ![w] = "w_pred"]
    /\ UNCHANGED <<otherVars, input, mainVars, results, jobs, slot, m_results, cv_results,
                   cv_jobs, stop_flag, wstop, printerVars, wjob, wval, invoked,
                   histVars>>

\* Faulty variant: if (stop_flag.load()) break;
WorkerTestStopFirst(w) ==
    /\ wpc[w] = "w_test"
    /\ IF wstop[w]
       THEN /\ wpc' = [wpc EXCEPT ![w] = "exited"]
            /\ UNCHANGED <<jobs, wjob>>
       ELSE /\ wjob' = [wjob EXCEPT ![w] = <<Head(jobs)>>]
            /\ jobs' = Tail(jobs)
            /\ wpc' = [wpc EXCEPT ![w] = "w_apply"]
    /\ m_jobs' = NoThread
    /\ UNCHANGED <<otherVars, input, mainVars, results, slot, m_results, cv_results,
                   cv_jobs, stop_flag, wstop, printerVars, wval, invoked, histVars>>

\* Faulty variant: l.unlock() is missing, m_jobs stays locked while the job runs
WorkerTestKeepsLock(w) ==
    /\ wpc[w] = "w_test"
    /\ IF wstop[w] /\ jobs = <<>>
       THEN /\ wpc' = [wpc EXCEPT ![w] = "exited"]
            /\ m_jobs' = NoThread
            /\ UNCHANGED <<jobs, wjob>>
       ELSE /\ wjob' = [wjob EXCEPT ![w] = <<Head(jobs)>>]
            /\ jobs' = Tail(jobs)
            /\ m_jobs' = w
            /\ wpc' = [wpc EXCEPT ![w] = "w_apply"]
    /\ UNCHANGED <<otherVars, input, mainVars, results, slot, m_results, cv_results,
                   cv_jobs, stop_flag, wstop, printerVars, wval, invoked, histVars>>

\* Faulty variant: the job is taken from the back of the queue
WorkerTestBack(w) ==
    /\ wpc[w] = "w_test"
    /\ IF wstop[w] /\ jobs = <<>>
       THEN /\ wpc' = [wpc EXCEPT ![w] = "exited"]
            /\ UNCHANGED <<jobs, wjob>>
       ELSE /\ wjob' = [wjob EXCEPT ![w] = <<jobs[Len(jobs)]>>]
            /\ jobs' = SubSeq(jobs, 1, Len(jobs) - 1)
            /\ wpc' = [wpc EXCEPT ![w] = "w_apply"]
    /\ m_jobs' = NoThread
    /\ UNCHANGED <<otherVars, input, mainVars, results, slot, m_results, cv_results,
                   cv_jobs, stop_flag, wstop, printerVars, wval, invoked, histVars>>

\* Faulty variant: the job is moved out of jobs.front() but jobs.pop() is missing
WorkerTestNoPop(w) ==
    /\ wpc[w] = "w_test"
    /\ IF wstop[w] /\ jobs = <<>>
       THEN /\ wpc' = [wpc EXCEPT ![w] = "exited"]
            /\ UNCHANGED <<jobs, wjob>>
       ELSE /\ wjob' = [wjob EXCEPT ![w] = <<Head(jobs)>>]
            /\ jobs' = jobs
            /\ wpc' = [wpc EXCEPT ![w] = "w_apply"]
    /\ m_jobs' = NoThread
    /\ UNCHANGED <<otherVars, input, mainVars, results, slot, m_results, cv_results,
                   cv_jobs, stop_flag, wstop, printerVars, wval, invoked, histVars>>

\* if (stop_flag.load() && jobs.empty()) break;  -- l's destructor unlocks
\* move func, args, promise out of jobs.front(); jobs.pop(); l.unlock()
WorkerTest(w) ==
    /\ wpc[w] = "w_test"
    /\ IF wstop[w] /\ jobs = <<>>
       THEN /\ wpc' = [wpc EXCEPT ![w] = "exited"]
            /\ UNCHANGED <<jobs, wjob>>
       ELSE /\ wjob' = [wjob EXCEPT ![w] = <<Head(jobs)>>]
            /\ jobs' = Tail(jobs)
            /\ wpc' = [wpc EXCEPT ![w] = "w_apply"]
    /\ m_jobs' = NoThread
    /\ UNCHANGED <<otherVars, input, mainVars, results, slot, m_results, cv_results,
                   cv_jobs, stop_flag, wstop, printerVars, wval, invoked, histVars>>

\* std::apply(func, args)
WorkerApply(w) ==
    /\ wpc[w] = "w_apply"
    /\ wval' = [wval EXCEPT ![w] = <<Apply(wjob[w][1].func, wjob[w][1].args)>>]
    /\ invoked' = [invoked EXCEPT ![wjob[w][1].promise] = @ + 1]
    /\ wpc' = [wpc EXCEPT ![w] = "w_set_value"]
    /\ UNCHANGED <<otherVars, input, mainVars, results, jobs, slot, m_results, m_jobs,
                   cv_results, cv_jobs, stop_flag, wstop, printerVars, wjob,
                   histVars>>

\* promise.set_value(...); the loop's locals are destroyed
WorkerSetValue(w) ==
    /\ wpc[w] = "w_set_value"
    /\ slot' = [slot EXCEPT ![wjob[w][1].promise] = wval[w]]
    /\ completed' = Append(completed, wjob[w][1].promise)
    /\ wjob' = [wjob EXCEPT ![w] = <<>>]
    /\ wval' = [wval EXCEPT ![w] = <<>>]
    /\ wpc' = [wpc EXCEPT ![w] = "w_lock"]
    /\ UNCHANGED <<otherVars, input, mainVars, results, jobs, m_results, m_jobs, cv_results,
                   cv_jobs, stop_flag, wstop, printerVars, invoked, pendingAtStop>>

\* A wait on cv_jobs may also unblock spuriously
SpuriousWakeJobs(w) ==
    /\ w \in cv_jobs
    /\ cv_jobs' = cv_jobs \ {w}
    /\ UNCHANGED <<otherVars, input, mainVars, results, jobs, slot, m_results, m_jobs,
                   cv_results, stop_flag, wstop, printerVars, workerVars, histVars>>

(***************************************************************************)
(* Specifications                                                          *)
(***************************************************************************)
MainStep ==
    \/ ReadGroup
    \/ ReadEof
    \/ SetJobLockResults
    \/ SetJobPushResults
    \/ SetJobNotifyResults
    \/ SetJobLockJobs
    \/ SetJobPushJobs
    \/ SetJobNotifyJobs
    \/ StopStore
    \/ StopNotify
    \/ JoinPrinter
    \/ DtorStop
    \/ DtorNotify
    \/ DtorJoin

\* get_answer's critical section of m_results and its wait on cv_results
PrinterQueueStep ==
    \/ GetAnswerLock
    \/ GetAnswerPred
    \/ GetAnswerBlock
    \/ GetAnswerWake
    \/ GetAnswerTest

PrinterStep ==
    \/ PrinterQueueStep
    \/ GetAnswerGet

\* operator()'s critical section of m_jobs and its wait on cv_jobs
WorkerQueueStep(w) ==
    \/ WorkerLock(w)
    \/ WorkerPred(w)
    \/ WorkerBlock(w)
    \/ WorkerWake(w)
    \/ WorkerTest(w)

WorkerStep(w) ==
    \/ WorkerQueueStep(w)
    \/ WorkerApply(w)
    \/ WorkerSetValue(w)

\* Every step a thread takes on its own
Progress ==
    \/ MainStep
    \/ PrinterStep
    \/ \E w \in Workers : WorkerStep(w)

Next ==
    \/ Progress
    \/ SpuriousWakeResults
    \/ \E w \in Workers : SpuriousWakeJobs(w)

Spec == Init /\ [][Next]_vars

\* Every thread that can take a step is eventually scheduled, and a thread
\* that finds the mutex it wants free again and again eventually gets it.
\* Nothing obliges a condition variable to wake a waiter spuriously.
FairSpec ==
    /\ Spec
    /\ SF_vars(MainStep)
    /\ SF_vars(PrinterStep)
    /\ \A w \in Workers : SF_vars(WorkerStep(w))

\* The same scheduling, but a job function may take forever: nothing obliges
\* std::apply to return, hence set_value to be called or result.get() to return.
StalledSpec ==
    /\ Spec
    /\ SF_vars(MainStep)
    /\ SF_vars(PrinterQueueStep)
    /\ \A w \in Workers : SF_vars(WorkerQueueStep(w))

(***************************************************************************)
(* A caller that collects nothing: set_job calls, stop(), then the pool     *)
(* goes out of scope while jobs may still be queued or running              *)
(***************************************************************************)
\* State after WorkerPool's constructor returned, no printer thread started
InitNoPrinter ==
    /\ nthreads = ToUInt(NumWorkers + 2)
    /\ num_threads = <<ToUInt(NumWorkers)>>
    /\ cpc = "unstarted"
    /\ cresult = <<>>
    /\ coutput = <<>>
    /\ input \in Inputs
    /\ mpc = "read"
    /\ nread = 0
    /\ di = 1
    /\ results = <<>>
    /\ jobs = <<>>
    /\ slot = [k \in SlotIds |-> <<>>]
    /\ m_results = NoThread
    /\ m_jobs = NoThread
    /\ cv_results = {}
    /\ cv_jobs = {}
    /\ stop_flag = FALSE
    /\ wstop = [w \in Workers |-> FALSE]
    /\ ppc = "unstarted"
    /\ result = <<>>
    /\ output = <<>>
    /\ wpc = [w \in Workers |-> "w_lock"]
    /\ wjob = [w \in Workers |-> <<>>]
    /\ wval = [w \in Workers |-> <<>>]
    /\ invoked = [k \in SlotIds |-> 0]
    /\ completed = <<>>
    /\ pendingAtStop = 0

\* There is no thread to join: after stop() the pool is destroyed at once
NoPrinterToJoin ==
    /\ mpc = "join_printer"
    /\ ppc = "unstarted"
    /\ mpc' = "dtor_stop"
    /\ di' = 1
    /\ UNCHANGED <<otherVars, input, nread, results, jobs, slot, m_results, m_jobs,
                   cv_results, cv_jobs, stop_flag, wstop, printerVars, workerVars,
                   histVars>>

\* The pool with or without a collecting thread
PoolInit == Init \/ InitNoPrinter

PoolNext ==
    \/ Next
    \/ NoPrinterToJoin

PoolSpec == PoolInit /\ [][PoolNext]_vars

(***************************************************************************)
(* Program start: the static nthreads is initialised, then main computes   *)
(* the argument of WorkerPool's constructor                                *)
(***************************************************************************)
\* State when main is entered, on any host: no pool, no thread but main
HostInit ==
    /\ nthreads \in HardwareConcurrency
    /\ num_threads = <<>>
    /\ cpc = "unstarted"
    /\ cresult = <<>>
    /\ coutput = <<>>
    /\ input \in Inputs
    /\ mpc = "main"
    /\ nread = 0
    /\ di = 1
    /\ results = <<>>
    /\ jobs = <<>>
    /\ slot = [k \in SlotIds |-> <<>>]
    /\ m_results = NoThread
    /\ m_jobs = NoThread
    /\ cv_results = {}
    /\ cv_jobs = {}
    /\ stop_flag = FALSE
    /\ wstop = [w \in Workers |-> FALSE]
    /\ ppc = "unstarted"
    /\ result = <<>>
    /\ output = <<>>
    /\ wpc = [w \in Workers |-> "unstarted"]
    /\ wjob = [w \in Workers |-> <<>>]
    /\ wval = [w \in Workers |-> <<>>]
    /\ invoked = [k \in SlotIds |-> 0]
    /\ completed = <<>>
    /\ pendingAtStop = 0

\* WorkerPool worker_pool(WorkerPool::nthreads - 2): the argument
MainWorkerCount ==
    /\ mpc = "main"
    /\ num_threads' = <<USub(nthreads, ToUInt(2))>>
    /\ mpc' = "construct"
    /\ UNCHANGED <<nthreads, callerVars, input, nread, di, results, jobs, slot,
                   m_results, m_jobs, cv_results, cv_jobs, stop_flag, wstop,
                   printerVars, workerVars, histVars>>

HostNext == MainWorkerCount

HostSpec == HostInit /\ [][HostNext]_vars

(***************************************************************************)
(* A second thread that calls get_answer in a loop, like the printer       *)
(***************************************************************************)
CallerThread == NumWorkers + 2

\* State after the constructor returned and both collecting threads started
TwoCallersInit ==
    /\ nthreads = ToUInt(NumWorkers + 2)
    /\ num_threads = <<ToUInt(NumWorkers)>>
    /\ cpc = "ga_lock"
    /\ cresult = <<>>
    /\ coutput = <<>>
    /\ input \in Inputs
    /\ mpc = "read"
    /\ nread = 0
    /\ di = 1
    /\ results = <<>>
    /\ jobs = <<>>
    /\ slot = [k \in SlotIds |-> <<>>]
    /\ m_results = NoThread
    /\ m_jobs = NoThread
    /\ cv_results = {}
    /\ cv_jobs = {}
    /\ stop_flag = FALSE
    /\ wstop = [w \in Workers |-> FALSE]
    /\ ppc = "ga_lock"
    /\ result = <<>>
    /\ output = <<>>
    /\ wpc = [w \in Workers |-> "w_lock"]
    /\ wjob = [w \in Workers |-> <<>>]
    /\ wval = [w \in Workers |-> <<>>]
    /\ invoked = [k \in SlotIds |-> 0]
    /\ completed = <<>>
    /\ pendingAtStop = 0

poolVars == <<input, mainVars, jobs, slot, m_jobs, cv_jobs, stop_flag, wstop,
              printerVars, workerVars, histVars, hostVars>>

\* std::unique_lock l(m_results)
CallerLock ==
    /\ cpc = "ga_lock"
    /\ m_results = NoThread
    /\ m_results' = CallerThread
    /\ cpc' = "ga_pred"
    /\ UNCHANGED <<poolVars, results, cv_results, cresult, coutput>>

\* The predicate of cv_results.wait: !results.empty() || stop_flag.load()
CallerPred ==
    /\ cpc = "ga_pred"
    /\ cpc' = IF results # <<>> \/ stop_flag THEN "ga_test" ELSE "ga_block"
    /\ UNCHANGED <<poolVars, results, m_results, cv_results, cresult, coutput>>

\* The predicate was false: wait(l) releases m_results and blocks, atomically
CallerBlock ==
    /\ cpc = "ga_block"
    /\ m_results' = NoThread
    /\ cv_results' = cv_results \cup {CallerThread}
    /\ cpc' = "ga_wait"
    /\ UNCHANGED <<poolVars, results, cresult, coutput>>

\* Unblocked: wait(l) reacquires m_results and the predicate is evaluated again
CallerWake ==
    /\ cpc = "ga_wait"
    /\ CallerThread \notin cv_results
    /\ m_results = NoThread
    /\ m_results' = CallerThread
    /\ cpc' = "ga_pred"
    /\ UNCHANGED <<poolVars, results, cv_results, cresult, coutput>>

\* if (stop_flag.load() && results.empty()) return {};
\* result = std::move(results.front()); results.pop(); end of l's scope
CallerTest ==
    /\ cpc = "ga_test"
    /\ IF stop_flag /\ results = <<>>
       THEN /\ cpc' = "exited"
            /\ UNCHANGED <<results, cresult>>
       ELSE /\ cresult' = <<Head(results)>>
            /\ results' = Tail(results)
            /\ cpc' = "ga_get"
    /\ m_results' = NoThread
    /\ UNCHANGED <<poolVars, cv_results, coutput>>

\* return {result.get()}: blocks until the shared state is ready
CallerGet ==
    /\ cpc = "ga_get"
    /\ slot[cresult[1]] # <<>>
    /\ coutput' = Append(coutput, [future |-> cresult[1],
                                   value |-> slot[cresult[1]][1]])
    /\ cresult' = <<>>
    /\ cpc' = "ga_lock"
    /\ UNCHANGED <<poolVars, results, m_results, cv_results>>

\* A wait on cv_results may also unblock spuriously
SpuriousWakeCaller ==
    /\ CallerThread \in cv_results
    /\ cv_results' = cv_results \ {CallerThread}
    /\ UNCHANGED <<poolVars, results, m_results, callerVars>>

CallerStep ==
    \/ CallerLock
    \/ CallerPred
    \/ CallerBlock
    \/ CallerWake
    \/ CallerTest
    \/ CallerGet

\* main up to the return of stop(): it then waits for the collecting threads
ProducerStep ==
    \/ ReadGroup
    \/ ReadEof
    \/ SetJobLockResults
    \/ SetJobPushResults
    \/ SetJobNotifyResults
    \/ SetJobLockJobs
    \/ SetJobPushJobs
    \/ SetJobNotifyJobs
    \/ StopStore
    \/ StopNotify

TwoCallersNext ==
    \/ ProducerStep
    \/ PrinterStep
    \/ CallerStep
    \/ \E w \in Workers : WorkerStep(w)
    \/ SpuriousWakeResults
    \/ SpuriousWakeCaller
    \/ \E w \in Workers : SpuriousWakeJobs(w)

TwoCallersSpec == TwoCallersInit /\ [][TwoCallersNext]_vars

(***************************************************************************)
\* The set_job call for group k has returned
Submitted(k) == nread > k \/ (nread = k /\ mpc \notin
    {"sj_lock_results", "sj_push_results", "sj_notify_results",
     "sj_lock_jobs", "sj_push_jobs", "sj_notify_jobs"})

\* Some get_answer call has returned the value of slot k
Collected(k) == \E i \in DOMAIN output : output[i].future = k

\* Job k sits in the Job Queue
Queued(k) == \E i \in DOMAIN jobs : jobs[i].promise = k

\* C1: the k-th value get_answer returns is the job function applied to the
\* k-th group submitted, whatever the order in which the workers finished.
OrderPreserved ==
    \A k \in DOMAIN output :
        /\ output[k].future = k
        /\ output[k].value = calculate_square_roots(input[k][1], input[k][2], input[k][3])

\* C1 witness: two different results were returned in submission order although
\* the second job completed first.
OrderPreservedWitness ==
    /\ Len(output) = 2
    /\ completed = <<2, 1>>
    /\ output[1].value # output[2].value

\* C2: every completed set_job is matched by exactly one get_answer that
\* eventually returns its result, and a printer that received the empty
\* optional has collected as many results as jobs were submitted.
NoResultLoss ==
    /\ [](\A k \in SlotIds :
            Cardinality({i \in DOMAIN output : output[i].future = k}) <= 1)
    /\ [](ppc = "exited" => Len(output) = Len(input))
    /\ \A k \in SlotIds : Submitted(k) ~> Collected(k)

\* C2 witness: stop() stored its flag while two jobs were still unfulfilled and
\* the printer nevertheless drained every result before leaving.
NoResultLossWitness ==
    /\ ppc = "exited"
    /\ pendingAtStop = 2
    /\ Len(output) = Len(input)

\* C3: no job function is invoked twice, no promise is set twice, a job is at
\* any time in one place only (the queue, one worker's locals, or done), a
\* worker obtains a job only by popping the head of the queue under m_jobs,
\* and a promise is set only by the worker holding its job.
ExactlyOnce ==
    /\ [](\A k \in SlotIds :
            /\ invoked[k] <= 1
            /\ Fulfils(k) <= 1
            /\ Cardinality({w \in Workers : wjob[w] # <<>> /\ wjob[w][1].promise = k})
                 + Cardinality({i \in DOMAIN jobs : jobs[i].promise = k})
                 + Fulfils(k) <= 1)
    /\ [][\A w \in Workers :
            wjob'[w] # wjob[w] /\ wjob'[w] # <<>> =>
                /\ m_jobs = w
                /\ jobs # <<>>
                /\ wjob'[w] = <<Head(jobs)>>
                /\ jobs' = Tail(jobs)]_vars
    /\ [][completed' # completed =>
            \E w \in Workers :
                /\ wpc[w] = "w_set_value"
                /\ wjob[w] # <<>>
                /\ invoked[wjob[w][1].promise] = 1
                /\ completed' = Append(completed, wjob[w][1].promise)
                /\ wjob'[w] = <<>>]_vars

\* C3 witness: two workers hold two different jobs at once, each invoked once,
\* and both are about to set their promises.
ExactlyOnceWitness ==
    /\ wpc[1] = "w_set_value"
    /\ wpc[2] = "w_set_value"
    /\ wjob[1][1].promise # wjob[2][1].promise
    /\ invoked[1] = 1
    /\ invoked[2] = 1

\* C4: every job pushed onto the Job Queue is eventually invoked and its slot
\* fulfilled; a push is never missed by a worker about to block.
NoJobDropped ==
    \A k \in SlotIds : Queued(k) ~> (invoked[k] = 1 /\ slot[k] # <<>>)

\* C4 witness: a job was pushed while a worker was blocked on the empty queue,
\* and the worker has been unblocked by the notification.
NoJobDroppedWitness ==
    /\ jobs # <<>>
    /\ mpc = "read"
    /\ \E w \in Workers : wpc[w] = "w_wait" /\ w \notin cv_jobs

\* Positions of main inside set_job
InSetJob == mpc \in {"sj_lock_results", "sj_push_results", "sj_notify_results",
                     "sj_lock_jobs", "sj_push_jobs", "sj_notify_jobs"}

\* Positions of main after stop() has returned
StopReturned == mpc \in {"join_printer", "dtor_stop", "dtor_notify", "dtor_join", "done"}

\* Positions of the printer inside get_answer before a slot is popped
InGetAnswerQueue == ppc \in {"ga_lock", "ga_pred", "ga_block", "ga_wait", "ga_test"}

\* C5: a get_answer call that finds the Result Queue empty, with stop() called,
\* eventually returns the empty optional, whatever the interleaving with stop().
ConsumerCleanShutdown ==
    (stop_flag /\ results = <<>> /\ InGetAnswerQueue) ~> (ppc = "exited")

\* C6: with no job ever submitted, pool teardown terminates: once ~WorkerPool
\* has begun, every worker leaves its wait and exits, and the joins return.
ShutdownTerminates ==
    (Len(input) = 0 /\ mpc = "dtor_stop") ~> (mpc = "done" /\ \A w \in Workers : wpc[w] = "exited")

\* C7 as stated: once stop() has returned, every worker's stop flag is raised
\* and every worker has terminated.
StopJoinsWorkers ==
    StopReturned => \A w \in Workers : wstop[w] /\ wpc[w] = "exited"

\* C7 amended: stop() raises the pool's flag only and touches no worker; the
\* workers' flags are raised by ~WorkerPool and the workers are joined by
\* ~Worker, so all workers have terminated once the pool is destroyed.
TeardownJoinsWorkers ==
    /\ StopReturned => stop_flag
    /\ mpc \in {"stop_store", "stop_notify", "join_printer"} =>
           \A w \in Workers : ~wstop[w] /\ wpc[w] # "exited"
    /\ mpc = "done" => \A w \in Workers : wstop[w] /\ wpc[w] = "exited"

\* C7 witness: the pool is destroyed after it has run jobs.
TeardownJoinsWorkersWitness ==
    /\ mpc = "done"
    /\ Len(completed) = 2
    /\ \A w \in Workers : wpc[w] = "exited"

\* C8: the printer has received the empty optional only if stop() was called
\* and the Result Queue is empty.
EmptyOnlyWhenStopped ==
    ppc = "exited" =>
        /\ stop_flag
        /\ results = <<>>
        /\ mpc \notin {"read", "stop_store"}
        /\ ~InSetJob

\* C8 witness: get_answer returned the empty optional after it had returned
\* values, while main is still in printer.join().
EmptyOnlyWhenStoppedWitness ==
    /\ ppc = "exited"
    /\ mpc = "join_printer"
    /\ Len(output) = 2

\* C9: the printer awaiting a slot does not hold m_results, a worker running
\* a job does not hold m_jobs, and set_job returns even if no job function
\* ever returns.
SetJobNeverWaits ==
    /\ [](ppc = "ga_get" => m_results # PrinterThread)
    /\ [](\A w \in Workers : wpc[w] \in {"w_apply", "w_set_value"} => m_jobs # w)
    /\ InSetJob ~> ~InSetJob

\* C9 witness: main is inside set_job while a worker is in a job function and
\* the printer awaits a pending slot.
SetJobNeverWaitsWitness ==
    /\ mpc = "sj_lock_results"
    /\ ppc = "ga_get"
    /\ slot[result[1]] = <<>>
    /\ \E w \in Workers : wpc[w] = "w_apply"

\* C10: a get_answer call that has popped a slot returns only when that slot
\* is fulfilled, and returns its value; stop() does not end the call.
GetAnswerAwaitsSlot ==
    [][ppc = "ga_get" /\ ppc' # "ga_get" =>
          /\ result # <<>>
          /\ slot[result[1]] # <<>>
          /\ Fulfils(result[1]) = 1
          /\ ppc' = "ga_lock"
          /\ output' = Append(output, [future |-> result[1],
                                       value |-> slot[result[1]][1]])]_vars

\* C10 witness: stop() has returned while the printer, having returned one
\* value, awaits a popped slot that is still pending.
GetAnswerAwaitsSlotWitness ==
    /\ ppc = "ga_get"
    /\ StopReturned
    /\ slot[result[1]] = <<>>
    /\ Len(output) = 1

\* C11: a worker that is invoking a job function or fulfilling the slot does
\* not own m_jobs; it owns m_jobs only between locking it and popping a job,
\* blocking or leaving the loop.
WorkerRunsUnlocked ==
    \A w \in Workers :
        /\ wpc[w] \in {"w_apply", "w_set_value"} => m_jobs # w /\ wjob[w] # <<>>
        /\ m_jobs = w => wpc[w] \in {"w_pred", "w_block", "w_test"}

\* C11 witness: while worker 1 is inside a job function, worker 2 owns m_jobs
\* and is about to dequeue another job.
WorkerRunsUnlockedWitness ==
    /\ wpc[1] = "w_apply"
    /\ m_jobs = 2
    /\ wpc[2] = "w_test"
    /\ jobs # <<>>

\* Number of jobs set_job has pushed onto the Job Queue so far
JobsPushed ==
    IF mpc \in {"sj_lock_results", "sj_push_results", "sj_notify_results",
                "sj_lock_jobs", "sj_push_jobs"}
    THEN nread - 1 ELSE nread

\* C12: the Job Queue holds the most recently pushed jobs in push order, and
\* the n-th job removed from it, by whichever worker, is the n-th job pushed.
JobQueueFifo ==
    /\ [](\A i \in DOMAIN jobs : jobs[i].promise = JobsPushed - Len(jobs) + i)
    /\ [][\A w \in Workers :
            wjob'[w] # wjob[w] /\ wjob'[w] # <<>> =>
                /\ wjob'[w][1].promise = JobsPushed - Len(jobs) + 1
                /\ wjob'[w][1].args = input[wjob'[w][1].promise]
                /\ jobs' = Tail(jobs)]_vars

\* C12 witness: job 1 was removed first and is running, job 2 is at the head
\* of the queue and the other worker owns m_jobs to remove it.
JobQueueFifoWitness ==
    /\ \E w \in Workers : wpc[w] = "w_apply" /\ wjob[w][1].promise = 1
    /\ Len(jobs) = 1
    /\ jobs[1].promise = 2
    /\ \E w \in Workers : wpc[w] = "w_test" /\ m_jobs = w

\* The futures in submission order: those the printer has returned, the one
\* it has popped and awaits, and those still in the Result Queue
SlotsPushed ==
    [i \in DOMAIN output |-> output[i].future] \o result \o results

\* C13: set_job pushes the slot before the job: at least as many slots as
\* jobs have been pushed, the slots pushed are 1, 2, ... in submission order,
\* and every job that is queued, running or finished has its slot among them.
SlotBeforeJob ==
    /\ Len(SlotsPushed) >= JobsPushed
    /\ Len(SlotsPushed) <= JobsPushed + 1
    /\ \A i \in DOMAIN SlotsPushed : SlotsPushed[i] = i
    /\ \A k \in SlotIds :
           (Queued(k) \/ Fulfils(k) > 0 \/
            \E w \in Workers : wjob[w] # <<>> /\ wjob[w][1].promise = k)
               => k <= Len(SlotsPushed)

\* C13 witness: the printer has already popped the slot of the second group
\* and awaits it while set_job has not yet pushed that group's job.
SlotBeforeJobWitness ==
    /\ mpc = "sj_lock_jobs"
    /\ nread = 2
    /\ ppc = "ga_get"
    /\ result = <<2>>
    /\ JobsPushed = 1

\* The threads that can own a mutex
Threads == {MainThread, PrinterThread} \cup Workers

\* C15: no thread owns m_results and m_jobs together, and no thread waits for
\* one of them while owning the other: main owns each only around its push,
\* the printer never owns m_jobs and a worker never owns m_results.
LocksNeverNested ==
    /\ \A t \in Threads : ~(m_results = t /\ m_jobs = t)
    /\ m_results \in {NoThread, MainThread, PrinterThread}
    /\ m_jobs \in {NoThread, MainThread} \cup Workers
    /\ m_results = MainThread <=> mpc = "sj_push_results"
    /\ m_jobs = MainThread <=> mpc = "sj_push_jobs"
    /\ mpc = "sj_lock_jobs" => m_results # MainThread
    /\ mpc = "sj_lock_results" => m_jobs # MainThread
    /\ m_results = PrinterThread <=> ppc \in {"ga_pred", "ga_block", "ga_test"}

\* C15 witness: main waits for m_jobs, owned by a worker, while the printer
\* owns m_results: both mutexes are taken and nobody owns or awaits both.
LocksNeverNestedWitness ==
    /\ mpc = "sj_lock_jobs"
    /\ m_jobs \in Workers
    /\ m_results = PrinterThread

\* C14: a worker leaves its loop only from the test under m_jobs, with its
\* stop flag set and the Job Queue empty; a worker that finds a job dequeues
\* it, stop flag or not; so once all workers have exited the Job Queue is
\* empty and every submitted job has been invoked and its slot fulfilled.
WorkerExitsOnlyWhenDrained ==
    /\ [][\A w \in Workers :
            wpc[w] # "exited" /\ wpc'[w] = "exited" =>
                /\ wpc[w] = "w_test"
                /\ m_jobs = w
                /\ wstop[w]
                /\ jobs = <<>>]_vars
    /\ [][\A w \in Workers :
            wpc[w] = "w_test" /\ wpc'[w] # "w_test" /\ jobs # <<>> =>
                /\ wpc'[w] = "w_apply"
                /\ wjob'[w] = <<Head(jobs)>>]_vars
    /\ [](\A w \in Workers : wpc[w] = "exited" => wstop[w])
    /\ []((\A w \in Workers : wpc[w] = "exited") =>
            /\ jobs = <<>>
            /\ mpc \in {"dtor_notify", "dtor_join", "done"}
            /\ \A k \in 1..Len(input) : invoked[k] = 1 /\ Fulfils(k) = 1)

\* C14 witness: the destructor has raised the stop flags and notified while
\* two jobs are still queued, and a worker whose flag is set owns m_jobs and
\* is at the test that decides between leaving and dequeuing.
WorkerExitsOnlyWhenDrainedWitness ==
    /\ mpc = "dtor_join"
    /\ Len(jobs) = 2
    /\ \E w \in Workers : wstop[w] /\ wpc[w] = "w_test" /\ m_jobs = w

\* C16: on every host the worker count main passes to the pool is at least 1
\* and less than the hardware concurrency.
WorkerCountUsable ==
    num_threads # <<>> =>
        /\ ULess(ToUInt(0), num_threads[1])
        /\ ULess(num_threads[1], nthreads)

\* Number of futures set_job has pushed onto the Result Queue so far
FuturesPushed == IF mpc \in {"sj_lock_results", "sj_push_results"}
                 THEN nread - 1 ELSE nread

\* Every place a future can be once pushed: returned by a get_answer call of
\* either thread, popped and awaited by either thread, or still queued
FuturePlaces ==
    [i \in DOMAIN output |-> output[i].future]
        \o [i \in DOMAIN coutput |-> coutput[i].future]
        \o result \o cresult \o results

\* C17: with two threads in get_answer, every future pushed is in exactly one
\* place, none is skipped (the queue holds the latest ones in order, all
\* earlier ones were popped), a future is popped only as the head of the
\* queue by the owner of m_results, and each call returns its own slot's value.
EachSlotPoppedOnce ==
    /\ [](\A k \in SlotIds :
            Cardinality({i \in DOMAIN FuturePlaces : FuturePlaces[i] = k})
                = IF k <= FuturesPushed THEN 1 ELSE 0)
    /\ [](\A i \in DOMAIN results : results[i] = FuturesPushed - Len(results) + i)
    /\ [](\A i \in DOMAIN output : <<output[i].value>> = slot[output[i].future])
    /\ [](\A i \in DOMAIN coutput : <<coutput[i].value>> = slot[coutput[i].future])
    /\ [][result' # result /\ result' # <<>> =>
            m_results = PrinterThread /\ results # <<>>
            /\ result' = <<Head(results)>> /\ results' = Tail(results)]_vars
    /\ [][cresult' # cresult /\ cresult' # <<>> =>
            m_results = CallerThread /\ results # <<>>
            /\ cresult' = <<Head(results)>> /\ results' = Tail(results)]_vars

\* C17 witness: both threads were in get_answer at once and each has returned
\* the result of a different job.
EachSlotPoppedOnceWitness ==
    /\ Len(output) = 1
    /\ Len(coutput) = 1
    /\ output[1].future # coutput[1].future
    /\ output[1].value # coutput[1].value

=============================================================================
